---------------------------- MODULE Spec2Model ----------------------------
(***************************************************************************)
(* A model of the Database_pipeline package: D365ODataFetcher              *)
(* (D365_func.py), S3DataFetcher (AWS_func.py), PostgresClient             *)
(* (PostgreSQL.py) and SFTPDataFetcher (SFTP_func.py).                     *)
(*                                                                         *)
(* Each class is modelled by its own group of variables and has its own    *)
(* specification; the variables of the other classes stay at their idle    *)
(* values.  A pandas DataFrame is a record [columns, rows]: the set of     *)
(* column labels and the sequence of rows, a row being a function from     *)
(* every label the model knows to a value (NaN where the frame has none).  *)
(***************************************************************************)
EXTENDS Integers, Sequences, FiniteSets, TLC

VARIABLES
  \* ---- D365ODataFetcher._fetch_for_country_on_date, one call ----
  f_pc,             \* "call" | "returned" | "raised"
  f_server,         \* the REST API of this call: URL -> response
  f_required,       \* self.required_fields (a set; {} when not configured)
  f_gets,           \* the URLs of the GET requests issued, in order
  f_records,        \* all_records when the page loop ended
  f_df,             \* the DataFrame returned
  \* ---- D365ODataFetcher.fetch_all_countries_range ----
  d_pc,             \* position in fetch_all_countries_range / _on_date
  d_required,       \* self.required_fields
  d_start, d_end,   \* the arguments start, end
  d_curr,           \* curr
  d_visited,        \* the dates fetch_all_countries_on_date was called with
  d_tok_i,          \* index in self.creds of the next country to authenticate
  d_token_map,      \* country_token_map: the countries holding a token, in order
  d_fetch_i,        \* index in country_token_map of the next country to fetch
  d_frames,         \* frames of fetch_all_countries_on_date
  d_df_day,         \* the table the last fetch_all_countries_on_date returned
  d_range_frames,   \* frames of fetch_all_countries_range
  d_result,         \* the table fetch_all_countries_range returned
  d_status,         \* per country, what happened to it in the current day
  d_served,         \* per country, the records the API served it in the current day
  d_queried,        \* the countries a query was issued for in the current day
  \* ---- PostgresClient ----
  p_pc,             \* "ready" (no call in progress) or the position in the call
  p_txn,            \* the connection's transaction: "idle" | "active" | "aborted"
  p_op,             \* the method called last: "run_query" | "insert_dataframe"
  p_arg,            \* its argument: the statement, or the destination table
  p_executes,       \* the outcomes of the call's attempts to execute, in order
  p_rollbacks,      \* the successful self.conn.rollback() of the call
  p_commits,        \* the successful self.conn.commit() of the call
  p_raised,         \* the exception the call raised: [type, names]
  p_calls,          \* the calls made so far
  \* ---- S3DataFetcher ----
  s_pc,             \* position in fetch_data / combine_dataframes
  s_buckets,        \* the keys of self.buckets, in order
  s_prefixes,       \* self.prefixes
  s_start, s_end,   \* the arguments start_date, end_date
  s_bi, s_pi,       \* index of the current bucket and of the current prefix
  s_off,            \* offset, the loop variable of range(days)
  s_keys,           \* the artifacts of the current listing still to fetch
  s_data_blocks,    \* self.data_blocks: prefix -> list of frames, or combined frame
  s_existing,       \* the parquet file of each prefix: a table, or Absent
  s_combined,       \* the mapping combine_dataframes returned
  s_dates,          \* the dates of the current (bucket, prefix) day loop, in order
  s_expected,       \* per prefix, the frames of the listed artifacts that decode
  s_fetched,        \* self.data_blocks as fetch_data left it
  s_runs,           \* the runs of combine_dataframes so far
  \* ---- SFTPDataFetcher.fetch_blockdata ----
  b_pc,             \* "call" | "keys" | "returned" | "raised"
  b_raw,            \* raw_df: the rows [line, datablock] of the combined raw data
  b_ki,             \* index in keys of the tag the loop is at
  b_blocks,         \* self.data_blocks: tag -> table
  \* ---- SFTPDataFetcher.fetch_files, fetch_rawdata and fetch_data ----
  r_pc,             \* "fetch_data" | "call" | "files" | "returned" | "raised" | "blockdata"
  r_caller,         \* "direct": fetch_rawdata(files) is called; "fetch_data": by fetch_data
  r_listing,        \* self.sftp.listdir(self.folder): the entries [name, file]
  r_start,          \* self.start_date
  r_end,            \* self.end_date
  r_files,          \* files: the entries fetch_rawdata is called with
  r_i,              \* index in files of the file the loop is at
  r_combined,       \* combined_raw_df
  r_log             \* per file visited so far, how its turn of the loop ended

fvars == <<f_pc, f_server, f_required, f_gets, f_records, f_df>>
dvars == <<d_pc, d_required, d_start, d_end, d_curr, d_visited, d_tok_i,
           d_token_map, d_fetch_i, d_frames, d_df_day, d_range_frames,
           d_result, d_status, d_served, d_queried>>
pvars == <<p_pc, p_txn, p_op, p_arg, p_executes, p_rollbacks, p_commits, p_raised,
           p_calls>>
svars == <<s_pc, s_buckets, s_prefixes, s_start, s_end, s_bi, s_pi, s_off, s_keys, s_data_blocks,
           s_existing, s_combined, s_dates, s_expected, s_fetched, s_runs>>
bvars == <<b_pc, b_raw, b_ki, b_blocks>>
rvars == <<r_pc, r_caller, r_listing, r_start, r_end, r_files, r_i, r_combined, r_log>>
vars == <<fvars, dvars, pvars, svars, bvars, rvars>>
fOthers == <<dvars, pvars, svars, bvars, rvars>>
dOthers == <<fvars, pvars, svars, bvars, rvars>>
pOthers == <<fvars, dvars, svars, bvars, rvars>>
sOthers == <<fvars, dvars, pvars, bvars, rvars>>
bOthers == <<fvars, dvars, pvars, svars, rvars>>
rOthers == <<fvars, dvars, pvars, svars>>

-----------------------------------------------------------------------------
(* Bounds *)

\* the REST API of one (country, date) answers on the URLs 0..MaxPages-1
MaxPages == 3
\* the most records one page carries
MaxRecs == 1
\* the dates of the model are 1..MaxDays
MaxDays == 2
\* the most records the API serves one country on one day in the batch model
MaxBatchRecs == 1
\* the most calls made on one PostgresClient
MaxCalls == 3
\* the most artifacts one listing returns
MaxKeys == 2
\* the most rows of a table of the merge model
MaxRows == 2
\* the most newly fetched tables of the merge model
MaxFrames == 1
\* the most runs of combine_dataframes in the merge model
MaxRuns == 2
\* the most fields that follow the tag in a line of the file-server payload
MaxFields == 1
\* the most lines of the payload
MaxLines == 3
\* the most files fetch_rawdata is called with
MaxFiles == 2
\* the most lines of a file on the file server
MaxFileLines == 2

-----------------------------------------------------------------------------
(* Values *)

\* pandas' missing value, under a label of strings and under a label of numbers
NaNOf(c) == IF c = "Country" THEN "NaN" ELSE 0 - 1
\* data.get("@odata.nextLink") of a response without one
NoLink == 0 - 1
\* no table (nothing returned yet)
NoFrame == [columns |-> {"<no frame>"}, rows |-> <<>>]

Ids == {1, 2}         \* the values of InventTransId
Qtys == {7}           \* the values of the other field of a record
KeyField == "InventTransId"
ApiFields == {KeyField, "Qty"}
AllCols == ApiFields \cup {"Country", "FetchDate"}

\* the records the API can serve
ApiRecords == [InventTransId : Ids, Qty : Qtys]

\* sequences over S of length at most n
RECURSIVE SeqsUpTo(_, _)
SeqsUpTo(S, n) ==
  IF n = 0 THEN {<<>>}
  ELSE LET shorter == SeqsUpTo(S, n - 1)
       IN shorter \cup {Append(s, x) : s \in {t \in shorter : Len(t) = n - 1}, x \in S}

\* self.required_fields: not configured, the key alone, or a field list without the key
RequiredOptions == {{}, {KeyField}, {"Qty"}}

-----------------------------------------------------------------------------
(* pandas *)

\* pd.DataFrame(): no columns, no rows
EmptyFrame == [columns |-> {}, rows |-> <<>>]

\* a row of a frame: a value under every label, NaN where there is none
RowOf(rec, country, date) ==
  [c \in AllCols |->
     IF c \in DOMAIN rec THEN rec[c]
     ELSE IF c = "Country" THEN country
     ELSE IF c = "FetchDate" THEN date
     ELSE NaNOf(c)]

\* pd.DataFrame(all_records) followed by df["Country"] = ..., df["FetchDate"] = ...
\* (D365_func.py 98-100): the columns are the keys of the records
RecordsFrame(all_records, country, date) ==
  [columns |-> (UNION {DOMAIN all_records[i] : i \in DOMAIN all_records})
                 \cup {"Country", "FetchDate"},
   rows |-> [i \in DOMAIN all_records |-> RowOf(all_records[i], country, date)]]

RECURSIVE ConcatRows(_)
ConcatRows(frames) ==
  IF frames = <<>> THEN <<>> ELSE Head(frames).rows \o ConcatRows(Tail(frames))

\* pd.concat(frames, ignore_index=True): the union of the columns, the rows in order
Concat(frames) ==
  [columns |-> UNION {frames[i].columns : i \in DOMAIN frames},
   rows |-> ConcatRows(frames)]

\* df[cols]: the frame restricted to the labels cols
SelectColumns(df, cols) ==
  [columns |-> cols,
   rows |-> [i \in DOMAIN df.rows |->
               [c \in AllCols |-> IF c \in cols THEN df.rows[i][c] ELSE NaNOf(c)]]]

\* the rows of s whose index is in keep, in order
RECURSIVE KeepIndices(_, _, _)
KeepIndices(s, keep, i) ==
  IF i > Len(s) THEN <<>>
  ELSE (IF i \in keep THEN <<s[i]>> ELSE <<>>) \o KeepIndices(s, keep, i + 1)

\* df.drop_duplicates(subset=subset), keep="first": a row stays when no earlier
\* row agrees with it on every label of subset
DropDuplicatesSubset(df, subset) ==
  [columns |-> df.columns,
   rows |-> KeepIndices(df.rows,
              {i \in DOMAIN df.rows :
                 \A j \in 1..(i - 1) :
                    \E c \in subset : df.rows[j][c] # df.rows[i][c]}, 1)]

-----------------------------------------------------------------------------
(* D365ODataFetcher._fetch_for_country_on_date *)

QueryUrl == 0     \* f"{self.base_url}?{flt}&$top={self.page_size}{select_clause}"
Urls == 0..(MaxPages - 1)

\* a response: resp.raise_for_status() raises unless ok; data.get("value", []) and
\* data.get("@odata.nextLink")
Responses(u, maxrecs) ==
  [ok : {TRUE}, value : SeqsUpTo(ApiRecords, maxrecs),
   next : {NoLink} \cup {v \in Urls : v > u}]
  \cup {[ok |-> FALSE, value |-> <<>>, next |-> NoLink]}

ErrorResponse == [ok |-> FALSE, value |-> <<>>, next |-> NoLink]

\* the REST APIs whose chain of pages starts at URL u: the URLs the chain does not
\* pass answer with an error (they are never requested)
RECURSIVE ServersFrom(_, _)
ServersFrom(u, maxrecs) ==
  LET blank == [v \in Urls |-> ErrorResponse]
      last == {r \in Responses(u, maxrecs) : r.next = NoLink}
  IN {[blank EXCEPT ![u] = r] : r \in last}
     \cup UNION {{[s EXCEPT ![u] = r] :
                    s \in ServersFrom(v, maxrecs),
                    r \in {x \in Responses(u, maxrecs) : x.next = v}} :
                 v \in {w \in Urls : w > u}}

\* the fake API of the specification's test: 3 pages of 2 records each, a continuation
\* link on pages 1 and 2 and none on page 3
FakeApi ==
  [u \in Urls |->
     IF u \in 0..2
     THEN [ok |-> TRUE,
           value |-> <<[InventTransId |-> 11 + 2 * u, Qty |-> 7],
                       [InventTransId |-> 12 + 2 * u, Qty |-> 7]>>,
           next |-> IF u < 2 THEN u + 1 ELSE NoLink]
     ELSE ErrorResponse]

\* the REST APIs of one (country, date): every continuation link leads forward, so
\* every chain of pages is finite
Servers == ServersFrom(QueryUrl, MaxRecs) \cup {FakeApi}

\* {k: r.get(k) for k in self.required_fields} (line 90), or the record itself
ProjectRecord(r, required) ==
  IF required = {} THEN r
  ELSE [k \in required |-> IF k \in DOMAIN r THEN r[k] ELSE NaNOf(k)]

ProjectPage(page_data, required) ==
  [i \in DOMAIN page_data |-> ProjectRecord(page_data[i], required)]

\* the page loop mutated: the continuation link is ignored after the first page
RECURSIVE FetchLoopFirstPageOnly(_, _, _, _, _)
FetchLoopFirstPageOnly(server, next_url, all_records, gets, required) ==
  IF next_url = NoLink
  THEN [raised |-> FALSE, all_records |-> all_records, gets |-> gets]
  ELSE LET resp == server[next_url]
       IN IF ~resp.ok
          THEN [raised |-> TRUE, all_records |-> all_records,
                gets |-> Append(gets, next_url)]
          ELSE [raised |-> FALSE,
                all_records |-> all_records \o ProjectPage(resp.value, required),
                gets |-> Append(gets, next_url)]

\* while next_url: ... (lines 81-95)
RECURSIVE FetchLoop(_, _, _, _, _)
FetchLoop(server, next_url, all_records, gets, required) ==
  IF next_url = NoLink
  THEN [raised |-> FALSE, all_records |-> all_records, gets |-> gets]
  ELSE LET resp == server[next_url]
       IN IF ~resp.ok
          THEN [raised |-> TRUE, all_records |-> all_records,
                gets |-> Append(gets, next_url)]
          ELSE FetchLoop(server, resp.next,
                         all_records \o ProjectPage(resp.value, required),
                         Append(gets, next_url), required)

\* _fetch_for_country_on_date(country, single_date, token): the outcome of the call
FetchForCountryOnDate(country, single_date, server, required) ==
  LET r == FetchLoop(server, QueryUrl, <<>>, <<>>, required)
  IN [raised |-> r.raised,
      gets |-> r.gets,
      all_records |-> r.all_records,
      df |-> IF r.raised THEN NoFrame
             ELSE RecordsFrame(r.all_records, country, single_date)]

Countries == <<"TH", "MY">>    \* the keys of self.creds, in dict order
CountrySet == {Countries[i] : i \in DOMAIN Countries}

FInit ==
  /\ f_pc = "call"
  /\ f_server \in Servers
  /\ f_required \in RequiredOptions
  /\ f_gets = <<>>
  /\ f_records = <<>>
  /\ f_df = NoFrame

FIdle ==
  /\ f_pc = "idle"
  /\ f_server = <<>>
  /\ f_required = {}
  /\ f_gets = <<>>
  /\ f_records = <<>>
  /\ f_df = NoFrame

\* one call of _fetch_for_country_on_date against the API f_server
FetchCall ==
  /\ f_pc = "call"
  /\ LET out == FetchForCountryOnDate("TH", 1, f_server, f_required)
     IN /\ f_pc' = IF out.raised THEN "raised" ELSE "returned"
        /\ f_gets' = out.gets
        /\ f_records' = out.all_records
        /\ f_df' = out.df
  /\ UNCHANGED <<f_server, f_required, fOthers>>

-----------------------------------------------------------------------------
(* D365ODataFetcher.fetch_all_countries_on_date and fetch_all_countries_range *)

NCountries == Len(Countries)

\* the REST APIs of the batch model: one page, at most MaxBatchRecs records, or an error
BatchServers ==
  {[u \in Urls |-> IF u = QueryUrl THEN r ELSE ErrorResponse] :
     r \in {x \in Responses(QueryUrl, MaxBatchRecs) : x.next = NoLink}}

NoStatus == [c \in CountrySet |-> "none"]
NoServed == [c \in CountrySet |-> <<>>]

DInit ==
  /\ d_pc = "range_loop"
  /\ d_required \in RequiredOptions
  /\ d_start \in 1..MaxDays
  /\ d_end \in 1..MaxDays
  /\ d_curr = d_start
  /\ d_visited = <<>>
  /\ d_tok_i = 1
  /\ d_token_map = <<>>
  /\ d_fetch_i = 1
  /\ d_frames = <<>>
  /\ d_df_day = NoFrame
  /\ d_range_frames = <<>>
  /\ d_result = NoFrame
  /\ d_status = NoStatus
  /\ d_served = NoServed
  /\ d_queried = {}

DIdle ==
  /\ d_pc = "idle"
  /\ d_required = {}
  /\ d_start = 1
  /\ d_end = 1
  /\ d_curr = 1
  /\ d_visited = <<>>
  /\ d_tok_i = 1
  /\ d_token_map = <<>>
  /\ d_fetch_i = 1
  /\ d_frames = <<>>
  /\ d_df_day = NoFrame
  /\ d_range_frames = <<>>
  /\ d_result = NoFrame
  /\ d_status = NoStatus
  /\ d_served = NoServed
  /\ d_queried = {}

\* while curr <= end: df_day = self.fetch_all_countries_on_date(curr) (lines 183-184)
\* enters fetch_all_countries_on_date: country_token_map = {} (line 140)
RangeLoop ==
  /\ d_pc = "range_loop"
  /\ d_curr <= d_end
  /\ d_pc' = "on_date"
  /\ d_visited' = Append(d_visited, d_curr)
  /\ d_tok_i' = 1
  /\ d_token_map' = <<>>
  /\ d_fetch_i' = 1
  /\ d_frames' = <<>>
  /\ d_status' = NoStatus
  /\ d_served' = NoServed
  /\ d_queried' = {}
  /\ UNCHANGED <<d_required, d_start, d_end, d_curr, d_df_day, d_range_frames,
                 d_result, dOthers>>

\* the token loop mutated: a token error is not caught and leaves the call
GetTokenUncaught ==
  /\ d_pc = "on_date"
  /\ d_tok_i <= NCountries
  /\ \E ok \in BOOLEAN :
       LET country == Countries[d_tok_i]
       IN IF ok
          THEN /\ d_token_map' = Append(d_token_map, country)
               /\ d_status' = [d_status EXCEPT ![country] = "token"]
               /\ d_tok_i' = d_tok_i + 1
               /\ d_pc' = d_pc
          ELSE /\ d_status' = [d_status EXCEPT ![country] = "token_failed"]
               /\ d_pc' = "raised"
               /\ UNCHANGED <<d_token_map, d_tok_i>>
  /\ UNCHANGED <<d_required, d_start, d_end, d_curr, d_visited, d_fetch_i, d_frames,
                 d_df_day, d_range_frames, d_result, d_served, d_queried, dOthers>>

\* one turn of "for country, cred in self.creds.items()" (lines 141-147):
\* _get_token returns a token or raises, and the exception is caught and printed
GetToken ==
  /\ d_pc = "on_date"
  /\ d_tok_i <= NCountries
  /\ \E ok \in BOOLEAN :
       LET country == Countries[d_tok_i]
       IN IF ok
          THEN /\ d_token_map' = Append(d_token_map, country)
               /\ d_status' = [d_status EXCEPT ![country] = "token"]
          ELSE /\ d_status' = [d_status EXCEPT ![country] = "token_failed"]
               /\ UNCHANGED d_token_map
  /\ d_tok_i' = d_tok_i + 1
  /\ UNCHANGED <<d_pc, d_required, d_start, d_end, d_curr, d_visited, d_fetch_i,
                 d_frames, d_df_day, d_range_frames, d_result, d_served, d_queried,
                 dOthers>>

\* cols_to_keep (lines 158-162)
ColsToKeep(df, required) == (required \cup {"Country", "FetchDate"}) \cap df.columns

\* one turn of "for country, token in country_token_map.items()" (lines 152-168)
FetchCountry ==
  /\ d_pc = "on_date"
  /\ d_tok_i > NCountries
  /\ d_fetch_i <= Len(d_token_map)
  /\ \E server \in BatchServers :
       LET country == d_token_map[d_fetch_i]
           out == FetchForCountryOnDate(country, d_curr, server, d_required)
           df_country == IF d_required # {}
                         THEN SelectColumns(out.df, ColsToKeep(out.df, d_required))
                         ELSE out.df
       IN /\ d_queried' = IF out.gets # <<>> THEN d_queried \cup {country}
                          ELSE d_queried
          /\ IF out.raised
             THEN /\ d_status' = [d_status EXCEPT ![country] = "fetch_failed"]
                  /\ UNCHANGED <<d_frames, d_served>>
             ELSE /\ d_status' = [d_status EXCEPT ![country] = "fetched"]
                  /\ d_served' = [d_served EXCEPT ![country] = server[QueryUrl].value]
                  /\ d_frames' = Append(d_frames, df_country)
  /\ d_fetch_i' = d_fetch_i + 1
  /\ UNCHANGED <<d_pc, d_required, d_start, d_end, d_curr, d_visited, d_tok_i,
                 d_token_map, d_df_day, d_range_frames, d_result, dOthers>>

\* the table fetch_all_countries_on_date returns (line 170)
OnDateResult(frames) == IF frames # <<>> THEN Concat(frames) ELSE EmptyFrame

\* fetch_all_countries_on_date returns (line 170); frames.append(df_day);
\* curr += timedelta(days=1) (lines 185-186)
ReturnDay ==
  /\ d_pc = "on_date"
  /\ d_tok_i > NCountries
  /\ d_fetch_i > Len(d_token_map)
  /\ d_df_day' = OnDateResult(d_frames)
  /\ d_range_frames' = Append(d_range_frames, OnDateResult(d_frames))
  /\ d_curr' = d_curr + 1
  /\ d_pc' = "range_loop"
  /\ UNCHANGED <<d_required, d_start, d_end, d_visited, d_tok_i, d_token_map,
                 d_fetch_i, d_frames, d_result, d_status, d_served, d_queried, dOthers>>

\* df.empty: an axis of the frame has length 0
IsEmpty(df) == df.rows = <<>> \/ df.columns = {}

\* the end of fetch_all_countries_range (lines 187-190): drop_duplicates returns a
\* copy of an empty frame before it looks at subset; on any other frame
\* df.drop_duplicates(subset=["InventTransId"]) raises KeyError when the
\* concatenation has no such column
FinishRange ==
  /\ d_pc = "range_loop"
  /\ d_curr > d_end
  /\ IF d_range_frames # <<>>
     THEN LET df == Concat(d_range_frames)
          IN IF IsEmpty(df)
             THEN /\ d_result' = df
                  /\ d_pc' = "returned"
             ELSE IF KeyField \in df.columns
             THEN /\ d_result' = DropDuplicatesSubset(df, {KeyField})
                  /\ d_pc' = "returned"
             ELSE /\ d_pc' = "raised"
                  /\ UNCHANGED d_result
     ELSE /\ d_result' = EmptyFrame
          /\ d_pc' = "returned"
  /\ UNCHANGED <<d_required, d_start, d_end, d_curr, d_visited, d_tok_i, d_token_map,
                 d_fetch_i, d_frames, d_df_day, d_range_frames, d_status, d_served,
                 d_queried, dOthers>>

-----------------------------------------------------------------------------
(* PostgresClient.run_query and PostgresClient.insert_dataframe *)

\* the statements run_query is called with: one that returns rows, one that does not
Statements == {"SELECT", "UPDATE"}

\* the tables insert_dataframe is called with, as the parts a "." separates:
\* "sales.orders", "orders" and "db.sales.orders"
Tables == {<<"sales", "orders">>, <<"orders">>, <<"db", "sales", "orders">>}

NoException == [type |-> "none", names |-> <<>>]

\* table.split(".", 1): at most one split, at the first "."
Split1(table) == IF Len(table) = 1 THEN <<table>> ELSE <<<<Head(table)>>, Tail(table)>>

PInit ==
  /\ p_pc = "ready"
  /\ p_txn \in {"idle", "aborted"}
  /\ p_op = "none"
  /\ p_arg = <<>>
  /\ p_executes = <<>>
  /\ p_rollbacks = 0
  /\ p_commits = 0
  /\ p_raised = NoException
  /\ p_calls = 0

PIdle ==
  /\ p_pc = "idle"
  /\ p_txn = "idle"
  /\ p_op = "none"
  /\ p_arg = <<>>
  /\ p_executes = <<>>
  /\ p_rollbacks = 0
  /\ p_commits = 0
  /\ p_raised = NoException
  /\ p_calls = 0

\* cursor.execute / execute_values on a connection whose transaction is txn: in an
\* aborted transaction the server refuses every statement (InFailedSqlTransaction);
\* otherwise the statement succeeds or fails with some other error
ExecuteOutcomes(txn) ==
  IF txn = "aborted" THEN {"InFailedSqlTransaction"} ELSE {"ok", "Error"}

\* the transaction after an attempt with that outcome
TxnAfter(txn, outcome) ==
  IF outcome = "ok" THEN "active"
  ELSE "aborted"

\* run_query(sql) is called: "always clear any prior aborted transaction" (lines 63-66);
\* a rollback that raises is swallowed and leaves the transaction as it was
RunQueryCall ==
  /\ p_pc = "ready"
  /\ p_calls < MaxCalls
  /\ \E sql \in Statements, cleared \in BOOLEAN :
       /\ p_arg' = sql
       /\ p_txn' = IF cleared THEN "idle" ELSE p_txn
       /\ p_rollbacks' = IF cleared THEN 1 ELSE 0
  /\ p_pc' = "rq_execute"
  /\ p_op' = "run_query"
  /\ p_executes' = <<>>
  /\ p_commits' = 0
  /\ p_raised' = NoException
  /\ p_calls' = p_calls + 1
  /\ UNCHANGED <<pOthers>>

\* the first self.cursor.execute(sql) and the except clauses it reaches (lines 68-77,
\* up to the rollback of line 72)
RunQueryExecute ==
  /\ p_pc = "rq_execute"
  /\ \E outcome \in ExecuteOutcomes(p_txn) :
       /\ p_executes' = Append(p_executes, outcome)
       /\ IF outcome = "ok"
          THEN /\ p_txn' = "active"
               /\ p_pc' = "rq_fetch"
               /\ UNCHANGED <<p_rollbacks, p_raised>>
          ELSE IF outcome = "InFailedSqlTransaction"
          THEN \* clear the bad transaction then retry once
               /\ p_txn' = "idle"
               /\ p_rollbacks' = p_rollbacks + 1
               /\ p_pc' = "rq_retry"
               /\ UNCHANGED p_raised
          ELSE \* any other error: roll back and re-raise
               /\ p_txn' = "idle"
               /\ p_rollbacks' = p_rollbacks + 1
               /\ p_raised' = [type |-> "RuntimeError", names |-> <<>>]
               /\ p_pc' = "ready"
  /\ UNCHANGED <<p_op, p_arg, p_commits, p_calls, pOthers>>

\* the second self.cursor.execute(sql), inside the except clause (line 73): what it
\* raises is not caught by the sibling except clause and leaves run_query as it is
RunQueryRetry ==
  /\ p_pc = "rq_retry"
  /\ \E outcome \in ExecuteOutcomes(p_txn) :
       /\ p_executes' = Append(p_executes, outcome)
       /\ p_txn' = TxnAfter(p_txn, outcome)
       /\ IF outcome = "ok"
          THEN /\ p_pc' = "rq_fetch"
               /\ UNCHANGED p_raised
          ELSE /\ p_raised' = [type |-> outcome, names |-> <<>>]
               /\ p_pc' = "ready"
  /\ UNCHANGED <<p_op, p_arg, p_rollbacks, p_commits, p_calls, pOthers>>

\* cols = [desc[0] for desc in self.cursor.description]; rows = fetchall() (lines
\* 80-82): cursor.description is None after a statement that returns no rows
RunQueryFetch ==
  /\ p_pc = "rq_fetch"
  /\ p_raised' = IF p_arg = "SELECT" THEN NoException
                 ELSE [type |-> "TypeError", names |-> <<>>]
  /\ p_pc' = "ready"
  /\ UNCHANGED <<p_txn, p_op, p_arg, p_executes, p_rollbacks, p_commits, p_calls,
                 pOthers>>

\* insert_dataframe(table, df) is called: schema, tbl = table.split(".", 1) (line 91).
\* Without a "." the unpacking raises ValueError inside the try; the except clause
\* rolls back and formats its message with tbl, which was never bound
InsertCall ==
  /\ p_pc = "ready"
  /\ p_calls < MaxCalls
  /\ \E table \in Tables :
       /\ p_arg' = table
       /\ IF Len(Split1(table)) = 2
          THEN /\ p_pc' = "ins_execute"
               /\ p_raised' = NoException
               /\ p_rollbacks' = 0
               /\ UNCHANGED p_txn
          ELSE /\ p_pc' = "ready"
               /\ p_txn' = "idle"
               /\ p_rollbacks' = 1
               /\ p_raised' = [type |-> "UnboundLocalError", names |-> <<>>]
  /\ p_op' = "insert_dataframe"
  /\ p_executes' = <<>>
  /\ p_commits' = 0
  /\ p_calls' = p_calls + 1
  /\ UNCHANGED <<pOthers>>

\* execute_values(self.cursor, template, values); self.conn.commit() (lines 107-109)
\* and the except clause (lines 110-112)
InsertExecute ==
  /\ p_pc = "ins_execute"
  /\ \E outcome \in ExecuteOutcomes(p_txn), committed \in BOOLEAN :
       /\ p_executes' = Append(p_executes, outcome)
       /\ IF outcome = "ok" /\ committed
          THEN /\ p_txn' = "idle"
               /\ p_commits' = 1
               /\ UNCHANGED <<p_rollbacks, p_raised>>
          ELSE /\ p_txn' = "idle"
               /\ p_rollbacks' = p_rollbacks + 1
               /\ p_raised' = [type |-> "RuntimeError", names |-> Split1(p_arg)[2]]
               /\ UNCHANGED p_commits
  /\ p_pc' = "ready"
  /\ UNCHANGED <<p_op, p_arg, p_calls, pOthers>>

-----------------------------------------------------------------------------
(* S3DataFetcher.fetch_data *)

AllBuckets == <<"bucket-th", "bucket-my">>
BucketCountry(bucket) == IF bucket = "bucket-th" THEN 66 ELSE 60   \* self.buckets
AllPrefixes == <<"members-data", "orders-data">>
PrefixSet(prefixes) == {prefixes[i] : i \in DOMAIN prefixes}

S3Cols == {"id", "name", "Country"}
Absent == [columns |-> {"<absent>"}, rows |-> <<>>]   \* os.path.exists(out_path) is false

\* the frame pd.read_csv gives for a CSV of the export, with df["Country"] = country
CsvFrame(country) ==
  [columns |-> S3Cols, rows |-> <<[id |-> 1, name |-> "a", Country |-> country]>>]

\* an archive entry: not a CSV (skipped), a CSV pd.read_csv cannot read, a readable CSV
Entries == {"txt", "bad_csv", "csv"}

\* an artifact: get_object fails or the body is no zip ("unreadable"), or a zip with
\* entries
Artifacts ==
  {[kind |-> "unreadable", entries |-> <<>>]}
  \cup [kind : {"zip"}, entries : {<<"txt", "csv">>, <<"csv", "bad_csv">>}]

\* the artifact decodes: _fetch_and_parse would return without raising
Decodes(artifact) ==
  /\ artifact.kind = "zip"
  /\ \A i \in DOMAIN artifact.entries : artifact.entries[i] # "bad_csv"

\* the frames _fetch_and_parse appends before it returns or raises (lines 60-67)
RECURSIVE ParsedFrames(_, _)
ParsedFrames(entries, country) ==
  IF entries = <<>> \/ Head(entries) = "bad_csv" THEN <<>>
  ELSE (IF Head(entries) = "csv" THEN <<CsvFrame(country)>> ELSE <<>>)
       \o ParsedFrames(Tail(entries), country)

\* _fetch_and_parse(bucket, key, prefix): the frames appended, and whether it raised
FetchAndParse(artifact, country) ==
  IF artifact.kind # "zip" THEN [raised |-> TRUE, frames |-> <<>>]
  ELSE [raised |-> ~Decodes(artifact),
        frames |-> ParsedFrames(artifact.entries, country)]

ListOf(frames) == [kind |-> "list", frames |-> frames]
NoBlocks(prefixes) == [q \in PrefixSet(prefixes) |-> ListOf(<<>>)]
NoTables(prefixes) == [q \in PrefixSet(prefixes) |-> <<>>]

\* the day count mutated: the end date is not counted
DaysExclusive == s_end - s_start

\* days = (end_date - start_date).days + 1 (line 80)
Days == (s_end - s_start) + 1

SInitFetch ==
  /\ s_pc = "ready"
  /\ \/ s_buckets = AllBuckets /\ s_prefixes = <<AllPrefixes[1]>>
     \/ s_buckets = <<AllBuckets[1]>> /\ s_prefixes = AllPrefixes
  /\ s_start \in 1..MaxDays
  /\ s_end \in 1..MaxDays
  /\ s_bi = 1
  /\ s_pi = 1
  /\ s_off = 0
  /\ s_keys = <<>>
  /\ s_data_blocks = NoBlocks(s_prefixes)
  /\ \E first \in {Absent, CsvFrame(66)} :
       s_existing = [q \in PrefixSet(s_prefixes) |->
                       IF q = s_prefixes[1] THEN first ELSE Absent]
  /\ s_combined = <<>>
  /\ s_dates = <<>>
  /\ s_expected = NoTables(s_prefixes)
  /\ s_fetched = NoBlocks(s_prefixes)
  /\ s_runs = 0

SIdle ==
  /\ s_pc = "idle"
  /\ s_buckets = <<>>
  /\ s_prefixes = <<>>
  /\ s_start = 1
  /\ s_end = 1
  /\ s_bi = 1
  /\ s_pi = 1
  /\ s_off = 0
  /\ s_keys = <<>>
  /\ s_data_blocks = <<>>
  /\ s_existing = <<>>
  /\ s_combined = <<>>
  /\ s_dates = <<>>
  /\ s_expected = <<>>
  /\ s_fetched = <<>>
  /\ s_runs = 0

\* fetch_data(start_date, end_date) is called: self.data_blocks is reset (line 79)
FetchDataCall ==
  /\ s_pc = "ready"
  /\ s_runs < MaxRuns
  /\ s_pc' = "loop"
  /\ s_data_blocks' = NoBlocks(s_prefixes)
  /\ s_bi' = 1
  /\ s_pi' = 1
  /\ s_off' = 0
  /\ s_keys' = <<>>
  /\ s_dates' = <<>>
  /\ s_expected' = NoTables(s_prefixes)
  /\ UNCHANGED <<s_buckets, s_prefixes, s_start, s_end, s_existing, s_combined, s_fetched, s_runs,
                 sOthers>>

\* the loops are over: fetch_data returns
LoopsDone == s_bi > Len(s_buckets)

\* the position after the current (bucket, prefix, offset): the next offset, else the
\* next prefix, else the next bucket
StepOffset ==
  IF s_off + 1 < Days
  THEN /\ s_off' = s_off + 1
       /\ UNCHANGED <<s_bi, s_pi>>
  ELSE /\ s_off' = 0
       /\ IF s_pi < Len(s_prefixes)
          THEN /\ s_pi' = s_pi + 1
               /\ UNCHANGED s_bi
          ELSE /\ s_pi' = 1
               /\ s_bi' = s_bi + 1

\* one turn of "for offset in range(days)" up to the listing (lines 84-89):
\* keys = self._list_keys(bucket, prefix, date); if not keys: continue
ListKeys ==
  /\ s_pc = "loop"
  /\ ~LoopsDone
  /\ Days >= 1
  /\ \E keys \in SeqsUpTo(Artifacts, MaxKeys) :
       LET prefix == s_prefixes[s_pi]
           country == BucketCountry(s_buckets[s_bi])
           good == [i \in DOMAIN keys |->
                      IF Decodes(keys[i]) THEN ParsedFrames(keys[i].entries, country)
                      ELSE <<>>]
       IN /\ s_expected' = [s_expected EXCEPT ![prefix] = @ \o ConcatRows(
                               [i \in DOMAIN good |-> [rows |-> good[i]]])]
          /\ s_dates' = IF s_off = 0 THEN <<s_start + s_off>>
                        ELSE Append(s_dates, s_start + s_off)
          /\ IF keys = <<>>
             THEN /\ StepOffset
                  /\ UNCHANGED <<s_pc, s_keys>>
             ELSE /\ s_keys' = keys
                  /\ s_pc' = "keys"
                  /\ UNCHANGED <<s_bi, s_pi, s_off>>
  /\ UNCHANGED <<s_buckets, s_prefixes, s_start, s_end, s_data_blocks, s_existing, s_combined,
                 s_fetched, s_runs, sOthers>>

\* one turn of "for key in keys: self._fetch_and_parse(bucket, key, prefix)" (lines
\* 90-91): nothing catches what _fetch_and_parse raises, so it leaves fetch_data
FetchKey ==
  /\ s_pc = "keys"
  /\ LET prefix == s_prefixes[s_pi]
         out == FetchAndParse(Head(s_keys), BucketCountry(s_buckets[s_bi]))
     IN /\ s_data_blocks' = [s_data_blocks EXCEPT
                               ![prefix] = ListOf(@.frames \o out.frames)]
        /\ IF out.raised
           THEN /\ s_pc' = "raised"
                /\ UNCHANGED <<s_keys, s_bi, s_pi, s_off>>
           ELSE /\ s_keys' = Tail(s_keys)
                /\ IF Tail(s_keys) = <<>>
                   THEN /\ s_pc' = "loop"
                        /\ StepOffset
                   ELSE UNCHANGED <<s_pc, s_bi, s_pi, s_off>>
  /\ UNCHANGED <<s_buckets, s_prefixes, s_start, s_end, s_existing, s_combined, s_dates,
                 s_expected, s_fetched, s_runs, sOthers>>

\* fetch_data returns: every bucket, prefix and offset was visited (or days < 1 and
\* range(days) is empty)
FetchDataReturn ==
  /\ s_pc = "loop"
  /\ LoopsDone \/ Days < 1
  /\ s_pc' = "fetched"
  /\ s_fetched' = s_data_blocks
  /\ UNCHANGED <<s_buckets, s_prefixes, s_start, s_end, s_bi, s_pi, s_off, s_keys, s_data_blocks,
                 s_existing, s_combined, s_dates, s_expected, s_runs, sOthers>>

-----------------------------------------------------------------------------
(* S3DataFetcher.combine_dataframes *)

\* drop_duplicates mutated: no row is dropped
DropDuplicatesKeepsAll(df) == df

\* drop_duplicates mutated: keep="last", a row stays when no later row equals it
DropDuplicatesKeepLast(df) ==
  [columns |-> df.columns,
   rows |-> KeepIndices(df.rows,
              {i \in DOMAIN df.rows :
                 \A j \in (i + 1)..Len(df.rows) : df.rows[j] # df.rows[i]}, 1)]

\* df.drop_duplicates(): whole rows, keep="first" (line 111)
DropDuplicates(df) == DropDuplicatesSubset(df, df.columns)

\* f with k mapped to v
Put(f, k, v) == [x \in DOMAIN f \cup {k} |-> IF x = k THEN v ELSE f[x]]

\* dfs_to_concat (lines 101-105): the collected frames, after the parquet file's
\* table when the file exists
DfsToConcat(dfs, existing) == IF existing # Absent THEN <<existing>> \o dfs ELSE dfs

\* pd.concat(dfs_to_concat, ignore_index=True).drop_duplicates() (line 111)
CombinePrefix(dfs, existing) == DropDuplicates(Concat(DfsToConcat(dfs, existing)))

\* the loop mutated: a prefix with nothing to concatenate is not skipped, and
\* pd.concat raises ValueError on the empty list
RECURSIVE CombineLoopNoSkip(_, _, _, _, _)
CombineLoopNoSkip(prefixes, i, data_blocks, existing, combined_blocks) ==
  IF i > Len(prefixes)
  THEN [raised |-> FALSE, data_blocks |-> data_blocks, combined |-> combined_blocks]
  ELSE LET prefix == prefixes[i]
           dfs == data_blocks[prefix]
       IN IF dfs.kind # "list" \/ DfsToConcat(dfs.frames, existing[prefix]) = <<>>
          THEN [raised |-> TRUE, data_blocks |-> data_blocks,
                combined |-> combined_blocks]
          ELSE LET combined == CombinePrefix(dfs.frames, existing[prefix])
               IN CombineLoopNoSkip(prefixes, i + 1,
                    [data_blocks EXCEPT ![prefix] = [kind |-> "frame",
                                                     frames |-> <<combined>>]],
                    existing, Put(combined_blocks, prefix, combined))

\* "for prefix, dfs in self.data_blocks.items()" from the i-th prefix on (lines
\* 100-116).  After an earlier combine_dataframes self.data_blocks[prefix] is a
\* DataFrame: list(dfs) is then its column labels and pd.concat raises TypeError
RECURSIVE CombineLoop(_, _, _, _, _)
CombineLoop(prefixes, i, data_blocks, existing, combined_blocks) ==
  IF i > Len(prefixes)
  THEN [raised |-> FALSE, data_blocks |-> data_blocks, combined |-> combined_blocks]
  ELSE LET prefix == prefixes[i]
           dfs == data_blocks[prefix]
       IN IF dfs.kind # "list"
          THEN [raised |-> TRUE, data_blocks |-> data_blocks,
                combined |-> combined_blocks]
          ELSE IF DfsToConcat(dfs.frames, existing[prefix]) = <<>>
          THEN CombineLoop(prefixes, i + 1, data_blocks, existing, combined_blocks)
          ELSE LET combined == CombinePrefix(dfs.frames, existing[prefix])
               IN CombineLoop(prefixes, i + 1,
                    [data_blocks EXCEPT ![prefix] = [kind |-> "frame",
                                                     frames |-> <<combined>>]],
                    existing, Put(combined_blocks, prefix, combined))

\* combine_dataframes()
CombineDataframes ==
  /\ s_pc \in {"fetched", "combined"}
  /\ s_runs < MaxRuns
  /\ LET out == CombineLoop(s_prefixes, 1, s_data_blocks, s_existing, <<>>)
     IN /\ s_pc' = IF out.raised THEN "combine_raised" ELSE "combined"
        /\ s_data_blocks' = out.data_blocks
        /\ s_combined' = out.combined
  /\ s_runs' = s_runs + 1
  /\ UNCHANGED <<s_buckets, s_prefixes, s_start, s_end, s_bi, s_pi, s_off, s_keys,
                 s_existing, s_dates, s_expected, s_fetched, sOthers>>

\* the caller persists the merged tables: each parquet file is overwritten wholesale
\* with the combined table of its prefix
WriteParquet ==
  /\ s_pc = "combined"
  /\ s_existing' = [q \in DOMAIN s_existing |->
                      IF q \in DOMAIN s_combined THEN s_combined[q] ELSE s_existing[q]]
  /\ s_pc' = "ready"
  /\ UNCHANGED <<s_buckets, s_prefixes, s_start, s_end, s_bi, s_pi, s_off, s_keys,
                 s_data_blocks, s_combined, s_dates, s_expected, s_fetched, s_runs,
                 sOthers>>

\* fetch_data run again over the same window against an unchanged object store: it
\* resets self.data_blocks and collects the same frames again
Refetch ==
  /\ s_pc = "ready"
  /\ s_runs >= 1
  /\ s_runs < MaxRuns
  /\ s_data_blocks' = s_fetched
  /\ s_pc' = "fetched"
  /\ UNCHANGED <<s_buckets, s_prefixes, s_start, s_end, s_bi, s_pi, s_off, s_keys,
                 s_existing, s_combined, s_dates, s_expected, s_fetched, s_runs,
                 sOthers>>

\* the rows of the merge model: two share the id, none equals another
MergeRows ==
  {[id |-> 1, name |-> "a", Country |-> 66],
   [id |-> 1, name |-> "b", Country |-> 66],
   [id |-> 2, name |-> "a", Country |-> 66]}

TableOf(rows) == [columns |-> S3Cols, rows |-> rows]
MergeTables == {TableOf(rows) : rows \in SeqsUpTo(MergeRows, MaxRows)}

\* the end-to-end scenario of the specification: 10 new rows, 5 persisted rows, 2 of
\* them among the new ones
ScenarioRow(n) == [id |-> n, name |-> "m", Country |-> 66]
ScenarioNew == TableOf([n \in 1..10 |-> ScenarioRow(n)])
ScenarioExisting == TableOf([n \in 1..5 |-> ScenarioRow(n + 8)])

\* the state after a fetch_data that collected the frames new for "members-data"
SInitMerge ==
  /\ s_pc = "fetched"
  /\ s_buckets = <<AllBuckets[1]>>
  /\ s_prefixes = <<AllPrefixes[1]>>
  /\ s_start = 1
  /\ s_end = 1
  /\ s_bi = 2
  /\ s_pi = 1
  /\ s_off = 0
  /\ s_keys = <<>>
  /\ \E new \in SeqsUpTo(MergeTables, MaxFrames) \cup {<<ScenarioNew>>},
        old \in MergeTables \cup {Absent, ScenarioExisting} :
       /\ s_data_blocks = [q \in PrefixSet(s_prefixes) |-> ListOf(new)]
       /\ s_fetched = [q \in PrefixSet(s_prefixes) |-> ListOf(new)]
       /\ s_existing = [q \in PrefixSet(s_prefixes) |-> old]
  /\ s_combined = <<>>
  /\ s_dates = <<1>>
  /\ s_expected = NoTables(s_prefixes)
  /\ s_runs = 0

-----------------------------------------------------------------------------
(* SFTPDataFetcher.fetch_blockdata *)

\* keys (line 127)
Keys == <<"SUM", "OTS", "CHR", "CMI", "CTD", "CDC", "MID", "KDS">>

\* A string of the payload is a sequence of tokens: "|" is the delimiter, every other
\* token a run of characters without one.  A field is a token, or "" between two
\* delimiters.
Delim == "|"
NoneValue == "<None>"     \* the None str.split(expand=True) pads short rows with

\* the tags the payload's lines carry, and the fields that follow the tag
PayloadTags == {"SUM", "OTS", "KDS"}
FieldValues(tag) == IF tag = "KDS" THEN {"guestcheckid", "x"} ELSE {"index", "x"}

\* "|".join(fields)
RECURSIVE Join(_)
Join(fields) ==
  IF Len(fields) <= 1 THEN fields
  ELSE <<Head(fields), Delim>> \o Join(Tail(fields))

\* line.split("|")
RECURSIVE Split(_)
Split(line) ==
  IF line = <<>> THEN <<"">>
  ELSE IF Head(line) = Delim THEN <<"">> \o Split(Tail(line))
  ELSE IF Len(line) = 1 THEN <<Head(line)>>
  ELSE <<Head(line)>> \o Split(SubSeq(line, 3, Len(line)))

\* str(line)[:3]: the tag is the line's first token (fetch_rawdata, line 76)
Str3(line) == Head(line)

\* the lines of the payload: a tag and up to MaxFields fields
PayloadLines ==
  UNION {{Join(<<tag>> \o rest) : rest \in SeqsUpTo(FieldValues(tag), MaxFields)} :
           tag \in PayloadTags}

\* the rows of raw_df: the line, and the datablock column fetch_rawdata derives
RawRows == {[line |-> l, datablock |-> Str3(l)] : l \in PayloadLines}

\* the name of the column the post-filter reads (lines 135-138)
SentinelOf(tag) == IF tag = "KDS" THEN "guestcheckid" ELSE "index"

\* the first row of every tag, the header of its block, names the column the
\* post-filter reads at most once
HeadersNameSentinelOnce(raw) ==
  \A i \in DOMAIN raw :
     (\A j \in 1..(i - 1) : raw[j].datablock # raw[i].datablock) =>
        LET header == Split(raw[i].line)
        IN \A m, n \in DOMAIN header :
              header[m] = SentinelOf(raw[i].datablock) /\ header[n] = header[m] => m = n

BInit ==
  /\ b_pc = "call"
  /\ b_raw \in {raw \in SeqsUpTo(RawRows, MaxLines) : HeadersNameSentinelOnce(raw)}
  /\ b_ki = 1
  /\ b_blocks = <<>>

BIdle ==
  /\ b_pc = "idle"
  /\ b_raw = <<>>
  /\ b_ki = 1
  /\ b_blocks = <<>>

\* fetch_blockdata(raw_df) is called (lines 121-125): self.data_blocks = {}; an empty
\* raw_df returns at once
BlockdataCall ==
  /\ b_pc = "call"
  /\ b_blocks' = <<>>
  /\ b_ki' = 1
  /\ b_pc' = IF b_raw = <<>> THEN "returned" ELSE "keys"
  /\ UNCHANGED <<b_raw, bOthers>>

\* raw_df[raw_df.iloc[:, 1] == key].reset_index(drop=True), its first column (line 129)
BlockLines(raw, key) ==
  LET IsOf(r) == r.datablock = key
      block == SelectSeq(raw, IsOf)
  IN [i \in DOMAIN block |-> block[i].line]

Max(S) == CHOOSE x \in S : \A y \in S : y <= x

\* fields padded with None to n positions
Pad(fields, n) == [i \in 1..n |-> IF i <= Len(fields) THEN fields[i] ELSE NoneValue]

\* NaN: the value of a row under a column its file did not have, as a line and as a
\* field
RawNaN == <<"<NaN>">>
FieldNaN == "<NaN>"

\* block.iloc[:, 0].str.split("|", expand=True) (line 131): as many columns as the
\* longest row has fields, shorter rows padded with None; a NaN line is NaN in
\* every column
SplitExpand(lines) ==
  LET width == Max({1} \cup {Len(Split(lines[i])) : i \in {j \in DOMAIN lines : lines[j] # RawNaN}})
  IN [i \in DOMAIN lines |->
        IF lines[i] = RawNaN THEN [n \in 1..width |-> FieldNaN]
        ELSE Pad(Split(lines[i]), width)]

\* .astype(str) of a value: None becomes the string "None", NaN the string "nan"
AsStr(v) == IF v = NoneValue THEN "None" ELSE IF v = FieldNaN THEN "nan" ELSE v

\* split_cols.columns = split_cols.iloc[0].astype(str); split_cols[1:] (lines 132-133)
TypedBlock(lines) ==
  LET split_cols == SplitExpand(lines)
  IN [columns |-> [i \in DOMAIN split_cols[1] |-> AsStr(split_cols[1][i])],
      rows |-> Tail(split_cols)]

HasColumn(df, name) == \E i \in DOMAIN df.columns : df.columns[i] = name
ColumnAt(df, name) == CHOOSE i \in DOMAIN df.columns : df.columns[i] = name

\* the post-filter mutated: no row is dropped
DropSentinelKeepsAll(df, name) == df

\* df[df[name] != name].reset_index(drop=True) (lines 137, 139)
DropSentinel(df, name) ==
  LET Keep(row) == row[ColumnAt(df, name)] # name
  IN [columns |-> df.columns, rows |-> SelectSeq(df.rows, Keep)]

\* "for key in self.data_blocks" from the i-th tag of order on (lines 134-139):
\* df['guestcheckid'] raises KeyError when the KDS block has no such column
RECURSIVE PostFilter(_, _, _)
PostFilter(blocks, order, i) ==
  IF i > Len(order) THEN [raised |-> FALSE, blocks |-> blocks]
  ELSE LET key == order[i]
           df == blocks[key]
       IN IF key = "KDS"
          THEN IF HasColumn(df, "guestcheckid")
               THEN PostFilter([blocks EXCEPT ![key] = DropSentinel(df, "guestcheckid")],
                               order, i + 1)
               ELSE [raised |-> TRUE, blocks |-> blocks]
          ELSE IF HasColumn(df, "index")
          THEN PostFilter([blocks EXCEPT ![key] = DropSentinel(df, "index")],
                          order, i + 1)
          ELSE PostFilter(blocks, order, i + 1)

\* the tags of Keys[1..n] that have a block, in the order they were inserted
RECURSIVE InsertedKeys(_, _)
InsertedKeys(blocks, n) ==
  IF n = 0 THEN <<>>
  ELSE InsertedKeys(blocks, n - 1)
       \o (IF Keys[n] \in DOMAIN blocks THEN <<Keys[n]>> ELSE <<>>)

\* one turn of "for key in keys" (lines 128-139)
BlockdataKey ==
  /\ b_pc = "keys"
  /\ b_ki <= Len(Keys)
  /\ LET key == Keys[b_ki]
         lines == BlockLines(b_raw, key)
     IN IF lines = <<>>
        THEN UNCHANGED <<b_blocks, b_pc>>
        ELSE LET added == Put(b_blocks, key, TypedBlock(lines))
                 out == PostFilter(added, InsertedKeys(added, b_ki), 1)
             IN /\ b_blocks' = out.blocks
                /\ b_pc' = IF out.raised THEN "raised" ELSE b_pc
  /\ b_ki' = b_ki + 1
  /\ UNCHANGED <<b_raw, bOthers>>

\* the loop over keys is over: fetch_blockdata returns
BlockdataReturn ==
  /\ b_pc = "keys"
  /\ b_ki > Len(Keys)
  /\ b_pc' = "returned"
  /\ UNCHANGED <<b_raw, b_ki, b_blocks, bOthers>>

-----------------------------------------------------------------------------
(* SFTPDataFetcher.fetch_files, fetch_rawdata and fetch_data *)

\* self.file_prefix, and the leading part of a file name that does not contain it
FilePrefix == "pos"
OtherStem == "log"
\* the last "_" part of a file name that is not a date in the format %Y-%m-%d
BadDate == 0

\* the names on the file server: a stem, "_", and a date or something else
FileNames ==
  {[stem |-> FilePrefix, date |-> d] : d \in {BadDate} \cup 1..MaxDays}
    \cup {[stem |-> OtherStem, date |-> 1]}

\* the label of the column fetch_rawdata adds (line 76)
DatablockLabel == <<"datablock">>

\* the lines the files of the model are made of
FileLines == {Join(<<"SUM", "index">>), Join(<<"OTS", "x">>)}

\* a file of the server: sftp.open or read raises; the bytes are not UTF-8; the text
\* is empty once stripped; pd.read_csv rejects the text; the text is single-column
\* lines
FileKinds == {"open_fails", "undecodable", "empty", "unparsable", "text"}
Files(maxlines) ==
  {[kind |-> k, lines |-> <<>>] : k \in FileKinds \ {"text"}}
    \cup {[kind |-> "text", lines |-> ls] : ls \in SeqsUpTo(FileLines, maxlines) \ {<<>>}}

\* pd.DataFrame(): no columns, no rows (line 62)
RawEmpty == [columns |-> <<>>, rows |-> <<>>]

LabelSet(df) == {df.columns[i] : i \in DOMAIN df.columns}

\* lines 74-76: pd.read_csv takes the first line for the column label and the others
\* for rows; line 75 puts the label back as the first row; line 76 adds datablock
FileFrame(lines) ==
  LET label == lines[1]
  IN [columns |-> <<label, DatablockLabel>>,
      rows |-> [i \in DOMAIN lines |->
                  [c \in {label, DatablockLabel} |->
                     IF c = label THEN lines[i] ELSE <<Str3(lines[i])>>]]]

\* the labels of b that a does not have, in b's order
RECURSIVE NewLabels(_, _)
NewLabels(a, b) ==
  IF b = <<>> THEN <<>>
  ELSE (IF \E i \in DOMAIN a : a[i] = Head(b) THEN <<>> ELSE <<Head(b)>>)
       \o NewLabels(a, Tail(b))

\* pd.concat([a, b], ignore_index=True) (line 77): the columns of a, then the new ones
\* of b; a row is NaN under the labels its frame did not have
RawConcat(a, b) ==
  LET columns == a.columns \o NewLabels(a.columns, b.columns)
      labels == {columns[i] : i \in DOMAIN columns}
      Widen(df) == [i \in DOMAIN df.rows |->
                      [c \in labels |-> IF c \in LabelSet(df) THEN df.rows[i][c] ELSE RawNaN]]
  IN [columns |-> columns, rows |-> Widen(a) \o Widen(b)]

RIdle ==
  /\ r_pc = "idle"
  /\ r_caller = "direct"
  /\ r_listing = <<>>
  /\ r_start = 1
  /\ r_end = 1
  /\ r_files = <<>>
  /\ r_i = 1
  /\ r_combined = RawEmpty
  /\ r_log = <<>>

\* fetch_rawdata(files) is about to be called with a list of files
RInitRaw ==
  /\ r_pc = "call"
  /\ r_caller = "direct"
  /\ r_listing = <<>>
  /\ r_start = 1
  /\ r_end = 1
  /\ r_files \in SeqsUpTo({[name |-> [stem |-> FilePrefix, date |-> 1], file |-> f] :
                             f \in Files(MaxFileLines)}, MaxFiles)
  /\ r_i = 1
  /\ r_combined = RawEmpty
  /\ r_log = <<>>

\* fetch_rawdata(files) is called (line 62)
RawdataCall ==
  /\ r_pc = "call"
  /\ r_combined' = RawEmpty
  /\ r_i' = 1
  /\ r_log' = <<>>
  /\ r_pc' = "files"
  /\ UNCHANGED <<r_caller, r_listing, r_start, r_end, r_files, bvars, rOthers>>

\* one turn of "for file in files" (lines 64-79): the open, the read and the decode
\* are outside the try, so what they raise leaves fetch_rawdata; what the parse
\* raises is caught and the file is skipped
FileTurn(file, combined) ==
  IF file.kind \in {"open_fails", "undecodable"}
  THEN [outcome |-> "raised", combined |-> combined]
  ELSE IF file.kind = "empty" THEN [outcome |-> "empty", combined |-> combined]
  ELSE IF file.kind = "unparsable" THEN [outcome |-> "skipped", combined |-> combined]
  ELSE [outcome |-> "added", combined |-> RawConcat(combined, FileFrame(file.lines))]

RawdataFile ==
  /\ r_pc = "files"
  /\ r_i <= Len(r_files)
  /\ LET out == FileTurn(r_files[r_i].file, r_combined)
     IN /\ r_combined' = out.combined
        /\ r_log' = Append(r_log, out.outcome)
        /\ r_pc' = IF out.outcome = "raised" THEN "raised" ELSE r_pc
  /\ r_i' = r_i + 1
  /\ UNCHANGED <<r_caller, r_listing, r_start, r_end, r_files, bvars, rOthers>>

\* return combined_raw_df (line 81)
RawdataReturn ==
  /\ r_pc = "files"
  /\ r_i > Len(r_files)
  /\ r_pc' = "returned"
  /\ UNCHANGED <<r_caller, r_listing, r_start, r_end, r_files, r_i, r_combined, r_log,
                 bvars, rOthers>>

\* the files of the folder in the model of fetch_data
ListedFiles ==
  {f \in Files(1) : f.kind \in {"open_fails", "empty", "text"}}

\* the folders of the model: the names present, and the file under each
Listings == UNION {[names -> ListedFiles] : names \in SUBSET FileNames}

\* fetch_data() is about to be called on a folder, with a date range set
RInitData ==
  /\ r_pc = "fetch_data"
  /\ r_caller = "fetch_data"
  /\ r_listing \in Listings
  /\ r_start \in 1..MaxDays
  /\ r_end \in 1..MaxDays
  /\ r_files = <<>>
  /\ r_i = 1
  /\ r_combined = RawEmpty
  /\ r_log = <<>>

\* _filter_files_by_date keeps the name (lines 43-48): it contains the prefix, its
\* last "_" part is a date, and the date is in the range
Matches(name, start, end) ==
  /\ name.stem = FilePrefix
  /\ name.date # BadDate
  /\ start <= name.date /\ name.date <= end

\* sorted(filtered) from date d on (line 51): the names that match differ in the date
\* only, and the format %Y-%m-%d sorts as the dates do
RECURSIVE SortedMatches(_, _, _, _)
SortedMatches(listing, start, end, d) ==
  IF d > end THEN <<>>
  ELSE LET name == [stem |-> FilePrefix, date |-> d]
       IN (IF name \in DOMAIN listing /\ Matches(name, start, end)
           THEN <<[name |-> name, file |-> listing[name]]>> ELSE <<>>)
          \o SortedMatches(listing, start, end, d + 1)

\* fetch_data calls fetch_files (lines 166, 53-58), then fetch_rawdata (line 167)
FetchFiles ==
  /\ r_pc = "fetch_data"
  /\ r_files' = SortedMatches(r_listing, r_start, r_end, 1)
  /\ r_pc' = "call"
  /\ UNCHANGED <<r_caller, r_listing, r_start, r_end, r_i, r_combined, r_log, bvars, rOthers>>

\* raw_df as fetch_blockdata reads it: empty, or iloc[:, 0] and iloc[:, 1] of its rows
Iloc01(df) ==
  [i \in DOMAIN df.rows |->
     [line |-> df.rows[i][df.columns[1]], datablock |-> Head(df.rows[i][df.columns[2]])]]

\* fetch_data hands the raw table to fetch_blockdata (line 168)
FetchDataBlocks ==
  /\ r_pc = "returned"
  /\ r_caller = "fetch_data"
  /\ r_pc' = "blockdata"
  /\ b_pc' = "call"
  /\ b_raw' = Iloc01(r_combined)
  /\ UNCHANGED <<b_ki, b_blocks, r_caller, r_listing, r_start, r_end, r_files, r_i,
                 r_combined, r_log, rOthers>>

-----------------------------------------------------------------------------
(* Claims about D365ODataFetcher *)

\* the rows of df whose Country is country, in order
RowsOfCountry(df, country) ==
  LET IsOf(r) == r["Country"] = country IN SelectSeq(df.rows, IsOf)

\* the rows the records recs of country give on date, after the projection
ExpectedRows(recs, country, date, required) ==
  [i \in DOMAIN recs |-> RowOf(ProjectRecord(recs[i], required), country, date)]

\* fetch_all_countries_on_date has returned and the day's bookkeeping is still in place
DayReturned == d_pc = "range_loop" /\ d_visited # <<>>
LastDate == d_visited[Len(d_visited)]

\* C1: in fetch_all_countries_on_date no token failure leaves the call (every call
\* that was entered returns), no query is issued for a country whose token
\* acquisition failed, every country holding a token is attempted, and every country
\* whose token acquisition and fetch succeeded has all the records it was served in
\* the returned table, in order.
C1_TokenFailureIsolated ==
  /\ \A c \in CountrySet : d_status[c] = "token_failed" => c \notin d_queried
  /\ d_pc = "raised" => Len(d_range_frames) = Len(d_visited)
  /\ DayReturned =>
       \A c \in CountrySet :
          /\ d_status[c] \in {"none", "token_failed", "fetched", "fetch_failed"}
          /\ d_status[c] = "fetched" =>
               RowsOfCountry(d_df_day, c)
                 = ExpectedRows(d_served[c], c, LastDate, d_required)

\* C1 witness: a day returned in which TH's token acquisition failed and MY was
\* fetched and contributed a record
C1_Witness ==
  /\ DayReturned
  /\ d_status["TH"] = "token_failed"
  /\ d_status["MY"] = "fetched"
  /\ d_served["MY"] # <<>>
  /\ Len(d_df_day.rows) = Len(d_served["MY"])

\* the number of records of the first i pages requested
RECURSIVE Offset(_, _, _)
Offset(server, gets, i) ==
  IF i = 0 THEN 0 ELSE Offset(server, gets, i - 1) + Len(server[gets[i]].value)

\* C7: when _fetch_for_country_on_date returns, the GET requests it issued are the
\* chain of pages: the first to the query URL, each next one to the continuation link
\* of the response before it, the last response carrying no link; and all_records is
\* the concatenation of the pages' (projected) records in page order.
C7_FollowsContinuationLinks ==
  f_pc = "returned" =>
    LET n == Len(f_gets)
    IN /\ n >= 1
       /\ f_gets[1] = QueryUrl
       /\ \A i \in 1..(n - 1) : f_server[f_gets[i]].next = f_gets[i + 1]
       /\ f_server[f_gets[n]].next = NoLink
       /\ Len(f_records) = Offset(f_server, f_gets, n)
       /\ Len(f_df.rows) = Len(f_records)
       /\ \A i \in 1..n :
            \A k \in 1..Len(f_server[f_gets[i]].value) :
               f_records[Offset(f_server, f_gets, i - 1) + k]
                 = ProjectRecord(f_server[f_gets[i]].value[k], f_required)

\* C7 witness: the fake API of 3 pages of 2 records gave 3 requests and 6 records
C7_Witness ==
  /\ f_pc = "returned"
  /\ f_server = FakeApi
  /\ Len(f_gets) = 3
  /\ Len(f_records) = 6

\* no two rows of df share a value of the key column (when df has that column)
NoDuplicateKey(df) ==
  KeyField \in df.columns =>
    \A i, j \in DOMAIN df.rows : i < j => df.rows[i][KeyField] # df.rows[j][KeyField]

\* C8: the table fetch_all_countries_on_date returns has no two rows with the same
\* InventTransId, and neither has the table fetch_all_countries_range returns.
C8_DedupPerDayAndRange ==
  /\ DayReturned => NoDuplicateKey(d_df_day)
  /\ d_pc = "returned" => NoDuplicateKey(d_result)

-----------------------------------------------------------------------------
(* Claims about PostgresClient *)

\* a call has ended and its outcome is recorded
CallEnded(op) == p_pc = "ready" /\ p_op = op

\* C3: run_query and insert_dataframe attempt a statement at most twice; there is a
\* second attempt exactly when the first failed with InFailedSqlTransaction; and when
\* the second attempt fails too, a RuntimeError naming the destination is raised.
C3_RetryOnceOnStaleOnly ==
  CallEnded("run_query") \/ CallEnded("insert_dataframe") =>
    /\ Len(p_executes) <= 2
    /\ Len(p_executes) = 2
         <=> (Len(p_executes) >= 1 /\ p_executes[1] = "InFailedSqlTransaction")
    /\ Len(p_executes) = 2 /\ p_executes[2] # "ok" =>
         p_raised.type = "RuntimeError" /\ p_raised.names # <<>>

\* C6: when insert_dataframe ends with an error it rolled back, did not commit and
\* raised a RuntimeError whose message names the destination; when it ends without
\* one it committed exactly once and did not roll back.
C6_InsertRollsBackAndReports ==
  CallEnded("insert_dataframe") =>
    IF p_raised = NoException
    THEN p_commits = 1 /\ p_rollbacks = 0
    ELSE /\ p_rollbacks >= 1
         /\ p_commits = 0
         /\ p_raised.type = "RuntimeError"
         /\ p_raised.names # <<>>

-----------------------------------------------------------------------------
(* Claims about S3DataFetcher *)

\* C2: no artifact's failure ends fetch_data, and when fetch_data returns every
\* artifact of the window that decodes has its frames in data_blocks.
C2_ArtifactFailureIsolated ==
  /\ s_pc # "raised"
  /\ s_pc = "fetched" =>
       \A q \in PrefixSet(s_prefixes) :
          ConcatRows(s_data_blocks[q].frames) = s_expected[q]

\* combine_dataframes has returned and its inputs are still in place
Combined == s_pc = "combined"

\* the rows combine_dataframes read for prefix q: the persisted table's, then the
\* newly fetched tables' in fetch order
InputRows(q) ==
  (IF s_existing[q] # Absent THEN s_existing[q].rows ELSE <<>>)
    \o ConcatRows(s_fetched[q].frames)

\* the index of the first occurrence of row r in the sequence rows
FirstIndex(rows, r) ==
  CHOOSE i \in DOMAIN rows : rows[i] = r /\ \A j \in 1..(i - 1) : rows[j] # r

\* C4: after a merge no two rows of a combined table share the key column's value,
\* and a persisted row is in the output whenever a row with its key value is.
C4_KeyUniqueExistingWins ==
  Combined =>
    \A q \in DOMAIN s_combined :
       LET out == s_combined[q].rows
       IN /\ \A i, j \in DOMAIN out : i < j => out[i]["id"] # out[j]["id"]
          /\ s_existing[q] # Absent =>
               \A i \in DOMAIN out :
                  (\E k \in DOMAIN s_existing[q].rows :
                      s_existing[q].rows[k]["id"] = out[i]["id"])
                    => \E k \in DOMAIN s_existing[q].rows : s_existing[q].rows[k] = out[i]

\* C5: merging the newly fetched tables into the merged table again gives the merged
\* table; and a run made after the merged table was persisted returns the persisted
\* table, row for row.
C5_MergeIdempotent ==
  Combined =>
    \A q \in DOMAIN s_combined :
       /\ CombinePrefix(s_fetched[q].frames, s_combined[q]) = s_combined[q]
       /\ s_runs >= 2 => s_combined[q] = s_existing[q]

\* C5 witness: a second run over new rows and a persisted table that had none of them
C5_Witness ==
  /\ Combined
  /\ s_runs = 2
  /\ \E q \in DOMAIN s_combined :
       /\ ConcatRows(s_fetched[q].frames) # <<>>
       /\ Len(s_combined[q].rows) > Len(ConcatRows(s_fetched[q].frames))

\* C9: the combined table of a prefix holds exactly the distinct rows of (persisted
\* table, then new tables in fetch order), each once, in the order of their first
\* occurrences; its length is the number of rows read less the repeated ones.
C9_WholeRowFirstOccurrence ==
  Combined =>
    \A q \in DOMAIN s_combined :
       LET out == s_combined[q].rows
           inp == InputRows(q)
       IN /\ {out[i] : i \in DOMAIN out} = {inp[i] : i \in DOMAIN inp}
          /\ \A i, j \in DOMAIN out : i < j => out[i] # out[j]
          /\ \A i, j \in DOMAIN out :
                i < j => FirstIndex(inp, out[i]) < FirstIndex(inp, out[j])
          /\ Len(out) = Cardinality({inp[i] : i \in DOMAIN inp})

\* C9 witness: 5 persisted rows and 10 new rows sharing 2 rows gave 13 rows, the
\* persisted ones first
C9_Witness ==
  /\ Combined
  /\ s_runs = 1
  /\ \E q \in DOMAIN s_combined :
       /\ s_existing[q] = ScenarioExisting
       /\ s_fetched[q].frames = <<ScenarioNew>>
       /\ Len(s_combined[q].rows) = 13
       /\ SubSeq(s_combined[q].rows, 1, 5) = ScenarioExisting.rows

-----------------------------------------------------------------------------
(* Claims about SFTPDataFetcher *)

\* the tags of the payload's rows
TagsOf(raw) == {raw[i].datablock : i \in DOMAIN raw}

\* the lines of a tag, in payload order
LinesOfTag(tag) ==
  LET IsOf(r) == Str3(r.line) = tag
      rs == SelectSeq(b_raw, IsOf)
  IN [i \in DOMAIN rs |-> rs[i].line]

SumOtsPayload == TagsOf(b_raw) = {"SUM", "OTS"}

\* the longest row of a tag, in fields
Widest(tag) == Max({Len(Split(LinesOfTag(tag)[i])) : i \in DOMAIN LinesOfTag(tag)})

\* no row of the table has the header sentinel in its index column
NoSentinelRow(df) ==
  \A i \in DOMAIN df.columns : df.columns[i] = "index" =>
    \A r \in DOMAIN df.rows : df.rows[r][i] # "index"

\* the rows of the table are the tag's rows after the first, in order, without the
\* repeated headers, each with its fields at their positions
DataRowsKept(tag) ==
  LET lines == LinesOfTag(tag)
      header == Split(lines[1])
      IsData(l) == \A i \in DOMAIN header :
                     header[i] = "index" => (i > Len(Split(l)) \/ Split(l)[i] # "index")
      data == SelectSeq(Tail(lines), IsData)
      rows == b_blocks[tag].rows
  IN /\ Len(rows) = Len(data)
     /\ \A r \in DOMAIN rows : \A i \in DOMAIN Split(data[r]) : rows[r][i] = Split(data[r])[i]

RECURSIVE ReadableLines(_)
ReadableLines(files) ==
  IF files = <<>> THEN <<>>
  ELSE (IF Head(files).file.kind = "text" THEN Head(files).file.lines ELSE <<>>)
       \o ReadableLines(Tail(files))

\* the table holds exactly these lines, one per row, in this order
HoldsLines(df, lines) ==
  /\ Len(df.rows) = Len(lines)
  /\ \A i \in DOMAIN lines :
        \E c \in LabelSet(df) \ {DatablockLabel} : df.rows[i][c] = lines[i]

\* C11: no file's failure (open, read, decode or parse) ends fetch_rawdata: every file
\* of the list gets its turn, and the returned table holds the lines of every file
\* that can be read and parsed, in list order.
C11_FileFailureIsolated ==
  /\ r_pc # "raised"
  /\ r_pc \in {"returned", "blockdata"} =>
       /\ Len(r_log) = Len(r_files)
       /\ HoldsLines(r_combined, ReadableLines(r_files))

-----------------------------------------------------------------------------
(* Claims about every source *)

\* S3: fetch_data raises only while it fetches a listed artifact, and a combined
\* result has no entry for a prefix with neither fetched nor persisted data
S3AbsentIsNormal ==
  /\ s_pc = "raised" => s_keys # <<>>
  /\ s_pc = "combined" =>
       \A q \in PrefixSet(s_prefixes) :
          (s_fetched[q].frames = <<>> /\ s_existing[q] = Absent) => q \notin DOMAIN s_combined

\* D365: fetch_all_countries_range raises only when some day contributed a row, and
\* returns a table without rows when no day did
D365AbsentIsNormal ==
  /\ d_pc = "raised" => ConcatRows(d_range_frames) # <<>>
  /\ (d_pc = "returned" /\ ConcatRows(d_range_frames) = <<>>) => d_result.rows = <<>>

\* fetch_data of the file-server source found no matching file
NoFileMatches == r_caller = "fetch_data" /\ r_pc # "fetch_data" /\ r_files = <<>>

\* file server: with no matching file nothing raises and fetch_data ends with an empty
\* block mapping
SFTPAbsentIsNormal ==
  NoFileMatches =>
    /\ r_pc # "raised"
    /\ b_pc # "raised"
    /\ b_blocks = <<>>

\* C12: no source treats absent data as an error: the combine_dataframes that follows
\* fetch_data returns, and omits the prefixes without data; fetch_all_countries_range
\* returns a table without rows when no unit contributed one; fetch_data of the file
\* server ends with an empty block mapping when no file matches.
C12_AbsentDataIsNormal ==
  /\ [](S3AbsentIsNormal /\ D365AbsentIsNormal /\ SFTPAbsentIsNormal)
  /\ [][s_pc = "fetched" => s_pc' \in {"fetched", "combined"}]_vars

\* C12 witness, object store: a window without artifacts, one prefix without a
\* persisted table, combined
C12_WitnessS3 ==
  /\ s_pc = "combined"
  /\ \A q \in PrefixSet(s_prefixes) : s_fetched[q].frames = <<>>
  /\ \E q \in PrefixSet(s_prefixes) : s_existing[q] = Absent /\ q \notin DOMAIN s_combined

\* C12 witness, REST API: a range in which a day was visited, a tenant was skipped
\* and a tenant was served no record; the range returned a table without rows
C12_WitnessD365 ==
  /\ d_pc = "returned"
  /\ d_range_frames # <<>>
  /\ d_status["TH"] = "token_failed"
  /\ d_status["MY"] = "fetched"
  /\ d_served["MY"] = <<>>
  /\ d_result.rows = <<>>

\* C12 witness, file server: a folder with files none of which matches; fetch_data
\* ended with an empty block mapping
C12_WitnessSFTP ==
  /\ NoFileMatches
  /\ DOMAIN r_listing # {}
  /\ r_pc = "blockdata"
  /\ b_pc = "returned"
  /\ b_blocks = <<>>

\* the dates of a range, ascending, both ends included
Window(start, end) == [i \in 1..((end - start) + 1) |-> start + (i - 1)]

\* a is the beginning of b
IsPrefix(a, b) == Len(a) <= Len(b) /\ \A i \in DOMAIN a : a[i] = b[i]

\* a day loop of fetch_data has ended: the next one has not listed yet, or
\* fetch_data has returned
DayLoopEnded ==
  \/ s_pc = "loop" /\ s_off = 0 /\ s_dates # <<>>
  \/ s_pc \in {"fetched", "combined", "combine_raised"}

\* C13: for start <= end the dates a day loop visits are at every moment the first
\* dates of the range, ascending and without repetition, and when the loop has ended
\* they are all (end - start).days + 1 dates of the range, both ends included; in
\* fetch_data for every bucket and prefix, in fetch_all_countries_range once.
C13_WindowVisitedOnce ==
  /\ s_start <= s_end =>
       /\ IsPrefix(s_dates, Window(s_start, s_end))
       /\ DayLoopEnded => s_dates = Window(s_start, s_end)
  /\ d_start <= d_end =>
       /\ IsPrefix(d_visited, Window(d_start, d_end))
       /\ d_pc \in {"returned", "raised"} => d_visited = Window(d_start, d_end)

\* C13 witness, object store: fetch_data returned from a range of more than one day
\* and its last day loop visited every date of it
C13_WitnessS3 ==
  /\ s_pc = "fetched"
  /\ s_start < s_end
  /\ Len(s_dates) = (s_end - s_start) + 1
  /\ s_dates[1] = s_start
  /\ s_dates[Len(s_dates)] = s_end

\* C13 witness, REST API: fetch_all_countries_range returned from a range of more
\* than one day and visited every date of it
C13_WitnessD365 ==
  /\ d_pc = "returned"
  /\ d_start < d_end
  /\ Len(d_visited) = (d_end - d_start) + 1
  /\ d_visited[1] = d_start
  /\ d_visited[Len(d_visited)] = d_end

-----------------------------------------------------------------------------
(* Specifications *)

\* one call of _fetch_for_country_on_date against every API of the bounds
InitFetch == FInit /\ DIdle /\ PIdle /\ SIdle /\ BIdle /\ RIdle
NextFetch == FetchCall
SpecFetch == InitFetch /\ [][NextFetch]_vars

\* fetch_all_countries_range over every date range and every API of the bounds
InitD365 == DInit /\ FIdle /\ PIdle /\ SIdle /\ BIdle /\ RIdle
NextD365 == RangeLoop \/ GetToken \/ FetchCountry \/ ReturnDay \/ FinishRange
SpecD365 == InitD365 /\ [][NextD365]_vars

\* calls of run_query and insert_dataframe on one PostgresClient, in any order
InitPG == PInit /\ FIdle /\ DIdle /\ SIdle /\ BIdle /\ RIdle
NextPG ==
  \/ RunQueryCall \/ RunQueryExecute \/ RunQueryRetry \/ RunQueryFetch
  \/ InsertCall \/ InsertExecute
SpecPG == InitPG /\ [][NextPG]_vars

\* fetch_data over every date range and every listing of the bounds
InitS3 == SInitFetch /\ FIdle /\ DIdle /\ PIdle /\ BIdle /\ RIdle
NextS3 ==
  \/ FetchDataCall \/ ListKeys \/ FetchKey \/ FetchDataReturn
  \/ CombineDataframes \/ WriteParquet
SpecS3 == InitS3 /\ [][NextS3]_vars

\* combine_dataframes, the write of its result and the next run, over every persisted
\* table and every list of new tables of the bounds
InitMerge == SInitMerge /\ FIdle /\ DIdle /\ PIdle /\ BIdle /\ RIdle
NextMerge == CombineDataframes \/ WriteParquet \/ Refetch
SpecMerge == InitMerge /\ [][NextMerge]_vars

\* fetch_blockdata over every payload of the bounds
InitSFTP == BInit /\ FIdle /\ DIdle /\ PIdle /\ SIdle /\ RIdle
NextSFTP == BlockdataCall \/ BlockdataKey \/ BlockdataReturn
SpecSFTP == InitSFTP /\ [][NextSFTP]_vars

\* fetch_rawdata over every list of files of the bounds
InitRaw == RInitRaw /\ FIdle /\ DIdle /\ PIdle /\ SIdle /\ BIdle
NextRaw == RawdataCall \/ RawdataFile \/ RawdataReturn
SpecRaw == InitRaw /\ [][NextRaw]_vars

\* fetch_data of the file-server source over every folder and date range of the bounds
InitData == RInitData /\ FIdle /\ DIdle /\ PIdle /\ SIdle /\ BIdle
NextData ==
  \/ FetchFiles \/ RawdataCall \/ RawdataFile \/ RawdataReturn \/ FetchDataBlocks
  \/ BlockdataCall \/ BlockdataKey \/ BlockdataReturn
SpecData == InitData /\ [][NextData]_vars

\* the three sources, each run from its own initial states: the object store
\* (fetch_data, then combine_dataframes), the REST API and the file server
InitSources == InitS3 \/ InitD365 \/ InitData
NextSources ==
  \/ FetchDataCall \/ ListKeys \/ FetchKey \/ FetchDataReturn \/ CombineDataframes
  \/ NextD365
  \/ NextData
SpecSources == InitSources /\ [][NextSources]_vars

=============================================================================
